---- MODULE Spec2Model ----
(***************************************************************************)
(* A model of psycopg3/pq/pq_cffi.py: the PGconn and PGresult wrappers     *)
(* around libpq handles, the Conninfo and Escaping utilities, and the COPY *)
(* behaviour exercised by tests/test_copy.py.                              *)
(*                                                                         *)
(* The wrapper state is the pointer field of each Python object.  The      *)
(* native engine (libpq, reached through `impl`) is the environment: its   *)
(* return values are chosen with \E over the values the library can        *)
(* return, and the part of its state the wrapper's contract talks about    *)
(* (live handles, release counts, the error buffer, the pending results    *)
(* of an asynchronous command, the connection polling machine) is kept in  *)
(* the eng_* variables.                                                    *)
(***************************************************************************)
EXTENDS Integers, Sequences, FiniteSets, TLC

\* ------------------------------------------------------------------ bounds
\* Native results the engine hands out during one run.
MaxResults == 2
\* Non-terminal answers PQconnectPoll / PQresetPoll may give before a terminal one.
MaxPolls == 2
\* Longest param_values / param_types / param_formats sequence tried.
MaxParams == 2
\* Rows pushed during one COPY-in.
MaxRows == 3
\* Chunks the engine produces during one COPY-out.
MaxChunks == 3
\* Longest byte string escaped.
MaxData == 2
\* Options in a native option array.
MaxOptions == 2

\* ------------------------------------------------------------- constants
\* ffi.NULL
NULL == 0
\* The one native connection the engine allocates for the PGconn object.
CONN == 1

VARIABLES
    obj,            \* the PGconn Python object: "none", "live", "dead" (after __del__)
    pgconn_ptr,     \* PGconn.pgconn_ptr
    results,        \* the PGresult objects, in creation order: [ptr, id, dead]
    eng_status,     \* engine: connection status "NONE", "STARTED", "OK", "BAD"
    eng_reachable,  \* engine: whether the server answers the handshake in progress
    eng_polls,      \* engine: non-terminal polls left in the handshake in progress
    eng_errmsg,     \* engine: the connection's error buffer (PQerrorMessage)
    eng_busy,       \* engine: an asynchronous command is in progress
    eng_pending,    \* engine: results of the asynchronous command not yet fetched
    eng_nres,       \* engine: native results allocated so far
    finish_calls,   \* number of PQfinish(CONN) calls
    clear_calls,    \* number of PQclear(id) calls, per native result id
    produced,       \* history: results the running asynchronous command produced
    received,       \* history: results get_result() wrapped since that command
    npolls,         \* history: polls that reached the engine in this handshake
    last,           \* the last call made: what was called and how it ended
    copy,           \* the COPY-in exchange of tests/test_copy.py
    copyout,        \* the COPY-out exchange of tests/test_copy.py
    opts,           \* engine: the native option arrays and diagnostics handed out
    esc,            \* the Escaping object and its last escape / unescape
    fin,            \* finish() in progress in each execution context
    marshal         \* the last parameter marshalling: its inputs and what it built

conn_vars == <<obj, pgconn_ptr>>
poll_vars == <<eng_status, eng_reachable, eng_polls, npolls>>
async_vars == <<eng_busy, eng_pending, produced, received>>
res_vars == <<results, eng_nres, clear_calls>>
util_vars == <<copyout, opts, esc, fin, marshal>>
vars == <<obj, pgconn_ptr, results, eng_status, eng_reachable, eng_polls,
          eng_errmsg, eng_busy, eng_pending, eng_nres, finish_calls,
          clear_calls, produced, received, npolls, last, copy, util_vars>>

ResIds == 1..MaxResults

\* Messages the engine may leave in the connection's error buffer.
Msgs == {"", "e1", "e2"}

\* The kinds of a textual argument: a byte string, or anything else (str, int, None).
Kinds == {"bytes", "str"}

\* ------------------------------------------------------------ call record
\* What a call recorded in `last` looked like: `closed` is whether the object's
\* pointer was NULL when the call began, `exc` the exception raised ("none" when
\* the call returned), `native` the engine function invoked ("none" when the
\* engine was not reached), `nullarg` whether that function was handed NULL,
\* `rv` the engine's scalar answer, `res` the native result the engine returned,
\* `val` what the call returned to its caller ("-" when it raised or returns None),
\* `msg` the text the exception carries, `detail` the engine's error text
\* embedded in it, `typed` whether the textual arguments
\* were byte strings, `mismatch` whether a param_types / param_formats length
\* differed from len(param_values), `h` the PGresult object concerned.
NoCall ==
    [op |-> "init", closed |-> FALSE, exc |-> "none", native |-> "none",
     nullarg |-> FALSE, rv |-> "-", res |-> NULL, val |-> "-", msg |-> "-",
     detail |-> "-", typed |-> TRUE, mismatch |-> FALSE, h |-> 0]

Call(op) == [NoCall EXCEPT !.op = op, !.closed = (pgconn_ptr = NULL)]

Raise(c, exc, msg) == [c EXCEPT !.exc = exc, !.msg = msg]

ClosedMsg == "the connection is closed"

\* impl.<func>(self.pgconn_ptr, ...) answering rv.
Native(c, func, rv) ==
    [c EXCEPT !.native = func, !.nullarg = (pgconn_ptr = NULL), !.rv = rv]

\* The call returns v.
Return(c, v) == [c EXCEPT !.val = v]

\* impl.<func>(conninfo): a native call that takes no handle.
NativeCls(c, func, rv) == [c EXCEPT !.native = func, !.rv = rv]

\* The COPY-in exchange before any COPY command was issued: `pc` is "idle",
\* "in" (between the COPY command and its end) or "done"; `pushed` the rows
\* written so far; `table` the rows of table copy_in a query of this connection
\* sees, `before` what it held when the COPY began; `tx` the connection's
\* transaction status; `error` the message the push loop was ended with ("-"
\* for none); `exc` and `msg` the error ending the COPY raised (its text and the
\* application's message it embeds); `queried` and `selected` a later select.
NoCopy ==
    [pc |-> "idle", pushed |-> <<>>, table |-> {}, before |-> {}, tx |-> "IDLE",
     error |-> "-", exc |-> "none", msg |-> <<"-", "-">>,
     queried |-> FALSE, selected |-> {}]

\* The COPY-out exchange before any COPY command was issued: `pc` is "idle",
\* "out" (chunks are being pulled), "ended" (the end-of-copy sentinel was
\* returned) or "done" (the final result was fetched); `stream` the chunks the
\* engine produces, `pos` how many of them it has handed over, `yielded` the
\* chunks the pull loop gave its caller, `sig` the last get-data answer,
\* `result` the status of the last result get_result gave.
NoCopyOut ==
    [pc |-> "idle", stream |-> <<>>, pos |-> 0, yielded |-> <<>>, sig |-> "-",
     result |-> "-"]

\* The engine's option arrays before any was handed out: `live` the arrays
\* allocated and not freed, `frees` the PQconninfoFree calls on the array of
\* the last call, `errbufs` the parse diagnostics allocated and not freed,
\* `array` the options of the last array, `list` the list the last call built.
NoOpts ==
    [live |-> 0, frees |-> 0, errbufs |-> 0, array |-> <<>>, list |-> <<>>]

\* No Escaping object yet.  `made`: Escaping(conn) was called; `bound`: with a
\* connection; `wasopen`: which was open then; `std` and `hex`: the engine's standard_conforming_strings and
\* hex-output settings in force at the last escape; `data`, `buf`, `out`: the
\* last escape_bytea's input, the engine's buffer (terminator included) and the
\* value returned; `uin`, `ubuf`, `uout`: the same for the last unescape_bytea.
NoEscaping ==
    [made |-> FALSE, bound |-> FALSE, wasopen |-> FALSE,
     std |-> FALSE, hex |-> FALSE,
     escaped |-> FALSE, data |-> <<>>, buf |-> <<>>, out |-> <<>>,
     unescaped |-> FALSE, uin |-> <<>>, ubuf |-> <<>>, uout |-> <<>>]

\* The execution contexts that may run finish() on the connection.
Contexts == {"a", "b"}

\* No finish() in progress: `pc` is "idle", "read" (the pointer was read into
\* p), "cleared" (NULL was stored) or "done"; `op` is finish or __del__.
NoFinish == [t \in Contexts |-> [pc |-> "idle", p |-> NULL, op |-> "-"]]

\* No marshalling done yet: `fn` the routine, `input` its arguments, `r` what
\* it ended with, `general` what _query_params_args ends with for them.
NoMarshal == [fn |-> "-", input |-> <<>>, r |-> <<>>, general |-> <<>>]

Init ==
    /\ obj = "none"
    /\ pgconn_ptr = NULL
    /\ results = <<>>
    /\ eng_status = "NONE"
    /\ eng_reachable = FALSE
    /\ eng_polls = 0
    /\ eng_errmsg = ""
    /\ eng_busy = FALSE
    /\ eng_pending = <<>>
    /\ eng_nres = 0
    /\ finish_calls = 0
    /\ clear_calls = [i \in ResIds |-> 0]
    /\ produced = <<>>
    /\ received = <<>>
    /\ npolls = 0
    /\ last = NoCall
    /\ copy = NoCopy
    /\ copyout = NoCopyOut
    /\ opts = NoOpts
    /\ esc = NoEscaping
    /\ fin = NoFinish
    /\ marshal = NoMarshal

\* A call that changes nothing but the record of itself.
Only(l) ==
    /\ last' = l
    /\ UNCHANGED <<conn_vars, poll_vars, async_vars, res_vars, eng_errmsg,
                   finish_calls, copy, util_vars>>

\* ------------------------------------------------------ private helpers
\* PGconn._ensure_pgconn: passes exactly when the pointer is not NULL.
ensure_pgconn == pgconn_ptr # NULL

\* _call_int written like _call_bool: the engine's answer goes through bool().
call_int_as_bool(c, func, rv) ==
    IF ~(pgconn_ptr # NULL) THEN Raise(c, "PQerror", ClosedMsg)
    ELSE Return(Native(c, func, rv), IF rv = "0" THEN "False" ELSE "True")

\* PGconn._call_int(func): the engine's answer is returned as it is.
call_int(c, func, rv) ==
    IF ~(pgconn_ptr # NULL) THEN Raise(c, "PQerror", ClosedMsg)
    ELSE Return(Native(c, func, rv), rv)

\* PGconn._call_bytes(func): `assert rv` on the engine's answer.
call_bytes(c, func, rv) ==
    IF ~(pgconn_ptr # NULL) THEN Raise(c, "PQerror", ClosedMsg)
    ELSE IF rv = "NULL" THEN Raise(Native(c, func, rv), "AssertionError", "")
    ELSE Return(Native(c, func, rv), rv)

\* PGconn._call_bool(func): bool() of the engine's answer.
call_bool(c, func, rv) ==
    IF ~(pgconn_ptr # NULL) THEN Raise(c, "PQerror", ClosedMsg)
    ELSE Return(Native(c, func, rv), IF rv = "0" THEN "False" ELSE "True")

\* ------------------------------------------------- the engine's handshake
\* PQconnectdb / PQconnectStart: NULL when the handle cannot be allocated.
PQconnect_ptrs == {NULL, CONN}

\* PQconnectPoll / PQresetPoll on a live connection: a finished handshake
\* repeats its terminal answer; one in progress asks for read or write
\* readiness while polls are left, then ends Ok or Failed.
PQpoll_rvs ==
    IF eng_status = "OK" THEN {"POLLING_OK"}
    ELSE IF eng_status = "BAD" THEN {"POLLING_FAILED"}
    ELSE IF eng_polls > 0 THEN {"POLLING_READING", "POLLING_WRITING"}
    ELSE IF eng_reachable THEN {"POLLING_OK"} ELSE {"POLLING_FAILED"}

\* The engine's state after answering rv to a poll.
PQpoll_step(rv) ==
    /\ eng_status' = IF rv = "POLLING_OK" THEN "OK"
                     ELSE IF rv = "POLLING_FAILED" THEN "BAD" ELSE eng_status
    /\ eng_polls' = IF rv \in {"POLLING_READING", "POLLING_WRITING"}
                    THEN eng_polls - 1 ELSE eng_polls
    /\ npolls' = IF eng_status = "STARTED" THEN npolls + 1 ELSE npolls
    /\ UNCHANGED eng_reachable

\* The engine drops what it still holds for the asynchronous command.
PQdrop_async ==
    /\ eng_busy' = FALSE
    /\ eng_pending' = <<>>
    /\ produced' = <<>>
    /\ received' = <<>>

\* ---------------------------------------------------- PGconn: lifecycle
\* connect turning a connection that is not Ok into a failure of the call.
NewConn_checks_status(c, func, ptr, st) ==
    IF ptr = NULL
    THEN Raise(NativeCls(c, func, "NULL"), "MemoryError",
               "couldn't allocate PGconn")
    ELSE IF st = "BAD"
    THEN Raise(NativeCls(c, func, st), "PQerror", "connection failed")
    ELSE [Return(NativeCls(c, func, st), "PGconn") EXCEPT !.res = ptr]

\* The tail of connect / connect_start:
\*   if not pgconn_ptr: raise MemoryError(...); return cls(pgconn_ptr)
\* st is the status of the connection the engine answered with; it is not looked at.
NewConn(c, func, ptr, st) ==
    IF ptr = NULL
    THEN Raise(NativeCls(c, func, "NULL"), "MemoryError",
               "couldn't allocate PGconn")
    ELSE [Return(NativeCls(c, func, st), "PGconn") EXCEPT !.res = ptr]

\* A connect call ended as l, the engine having answered ptr, a connection of
\* status st with n polls to go towards a server that is reachable or not (r),
\* its error buffer holding m.
Connected(l, ptr, st, r, n, m) ==
    /\ last' = l
    /\ obj' = IF l.val = "PGconn" THEN "live" ELSE "none"
    /\ pgconn_ptr' = IF l.val = "PGconn" THEN l.res ELSE NULL
    /\ IF ptr = NULL
       THEN UNCHANGED <<poll_vars, eng_errmsg>>
       ELSE /\ eng_status' = st
            /\ eng_reachable' = r
            /\ eng_polls' = n
            /\ npolls' = 0
            /\ eng_errmsg' = m
    /\ UNCHANGED <<async_vars, res_vars, finish_calls, copy, util_vars>>

\* PGconn.connect (classmethod): blocking, the handshake is over on return.
connect ==
    /\ obj = "none"
    /\ \E conninfo \in Kinds :
        IF conninfo # "bytes"
        THEN Only(Raise([Call("connect") EXCEPT !.typed = FALSE],
                        "TypeError", "bytes expected"))
        ELSE \E ptr \in PQconnect_ptrs, st \in {"OK", "BAD"}, m \in Msgs :
            Connected(NewConn(Call("connect"), "PQconnectdb", ptr, st),
                      ptr, st, st = "OK", 0, IF st = "OK" THEN "" ELSE m)

\* PGconn.connect_start (classmethod): returns with the handshake to be polled.
connect_start ==
    /\ obj = "none"
    /\ \E conninfo \in Kinds :
        IF conninfo # "bytes"
        THEN Only(Raise([Call("connect_start") EXCEPT !.typed = FALSE],
                        "TypeError", "bytes expected"))
        ELSE \E ptr \in PQconnect_ptrs, st \in {"STARTED", "BAD"},
                r \in BOOLEAN, n \in 0..MaxPolls, m \in Msgs :
            Connected(NewConn(Call("connect_start"), "PQconnectStart", ptr, st),
                      ptr, st, st = "STARTED" /\ r,
                      IF st = "STARTED" THEN n ELSE 0,
                      IF st = "STARTED" THEN "" ELSE m)

\* PGconn.connect_poll
connect_poll ==
    /\ obj = "live"
    /\ IF pgconn_ptr = NULL
       THEN Only(call_int(Call("connect_poll"), "PQconnectPoll", "-"))
       ELSE \E rv \in PQpoll_rvs :
            /\ last' = call_int(Call("connect_poll"), "PQconnectPoll", rv)
            /\ PQpoll_step(rv)
            /\ UNCHANGED <<conn_vars, async_vars, res_vars, eng_errmsg,
                           finish_calls, copy, util_vars>>

\* finish without the swap: the pointer is released and kept.
Finish_noclear(op) ==
    LET p == pgconn_ptr IN
    /\ UNCHANGED pgconn_ptr
    /\ IF p # NULL
       THEN /\ last' = Native(Call(op), "PQfinish", "-")
            /\ finish_calls' = finish_calls + 1
            /\ eng_status' = "NONE"
            /\ eng_reachable' = FALSE
            /\ eng_polls' = 0
            /\ npolls' = 0
            /\ eng_errmsg' = ""
            /\ PQdrop_async
       ELSE /\ last' = Call(op)
            /\ UNCHANGED <<poll_vars, async_vars, eng_errmsg, finish_calls>>
    /\ UNCHANGED <<res_vars, copy, util_vars>>

\* PGconn.finish, called as `op`: the pointer is swapped for NULL first, and
\* PQfinish gets the old pointer only when it was not NULL.
Finish(op) ==
    LET p == pgconn_ptr IN
    /\ pgconn_ptr' = NULL
    /\ IF p # NULL
       THEN /\ last' = Native(Call(op), "PQfinish", "-")
            /\ finish_calls' = finish_calls + 1
            /\ eng_status' = "NONE"
            /\ eng_reachable' = FALSE
            /\ eng_polls' = 0
            /\ npolls' = 0
            /\ eng_errmsg' = ""
            /\ PQdrop_async
       ELSE /\ last' = Call(op)
            /\ UNCHANGED <<poll_vars, async_vars, eng_errmsg, finish_calls>>
    /\ UNCHANGED <<res_vars, copy, util_vars>>

\* PGconn.finish
finish == obj = "live" /\ Finish("finish") /\ UNCHANGED obj

\* PGconn.__del__: the object's end of life.
PGconn_del == obj = "live" /\ Finish("__del__") /\ obj' = "dead"

\* PGconn.reset: blocking, the engine reconnects in place.
reset ==
    /\ obj = "live"
    /\ IF ~ensure_pgconn
       THEN Only(Raise(Call("reset"), "PQerror", ClosedMsg))
       ELSE \E st \in {"OK", "BAD"}, m \in Msgs :
            /\ last' = Native(Call("reset"), "PQreset", "-")
            /\ eng_status' = st
            /\ eng_reachable' = (st = "OK")
            /\ eng_polls' = 0
            /\ npolls' = 0
            /\ eng_errmsg' = IF st = "OK" THEN "" ELSE m
            /\ PQdrop_async
            /\ UNCHANGED <<conn_vars, res_vars, finish_calls, copy, util_vars>>

\* PGconn.reset_start: the pointer goes to the engine unchecked; a zero answer
\* (the engine's answer for NULL) raises.
reset_start ==
    /\ obj = "live"
    /\ IF pgconn_ptr = NULL
       THEN Only(Raise(Native(Call("reset_start"), "PQresetStart", "0"),
                       "PQerror", "couldn't reset connection"))
       ELSE \E rv \in {"0", "1"}, r \in BOOLEAN, n \in 0..MaxPolls, m \in Msgs :
            /\ last' = IF rv = "0"
                       THEN Raise(Native(Call("reset_start"), "PQresetStart", rv),
                                  "PQerror", "couldn't reset connection")
                       ELSE Native(Call("reset_start"), "PQresetStart", rv)
            /\ eng_status' = IF rv = "0" THEN "BAD" ELSE "STARTED"
            /\ eng_reachable' = (rv = "1" /\ r)
            /\ eng_polls' = IF rv = "1" THEN n ELSE 0
            /\ npolls' = 0
            /\ eng_errmsg' = IF rv = "1" THEN "" ELSE m
            /\ PQdrop_async
            /\ UNCHANGED <<conn_vars, res_vars, finish_calls, copy, util_vars>>

\* PGconn.reset_poll
reset_poll ==
    /\ obj = "live"
    /\ IF pgconn_ptr = NULL
       THEN Only(call_int(Call("reset_poll"), "PQresetPoll", "-"))
       ELSE \E rv \in PQpoll_rvs :
            /\ last' = call_int(Call("reset_poll"), "PQresetPoll", rv)
            /\ PQpoll_step(rv)
            /\ UNCHANGED <<conn_vars, async_vars, res_vars, eng_errmsg,
                           finish_calls, copy, util_vars>>

\* ---------------------------------------------------- PGconn: accessors
\* What the engine answers to a read of the connection: its own state on a live
\* handle; on NULL whatever that function does with a null pointer.
PQstatus_rvs ==
    IF pgconn_ptr = NULL THEN {"OK", "BAD", "STARTED"} ELSE {eng_status}

PQtransactionStatus_rvs ==
    IF pgconn_ptr = NULL \/ eng_status # "OK" THEN {"UNKNOWN"}
    ELSE IF eng_busy THEN {"ACTIVE"} ELSE {"IDLE", "INTRANS", "INERROR"}

PQerrorMessage_rvs == IF pgconn_ptr = NULL THEN Msgs ELSE {eng_errmsg}

\* A property read through _call_bytes.
BytesAccessor(op, func) ==
    /\ obj = "live"
    /\ \E rv \in {"NULL", "bytes"} : Only(call_bytes(Call(op), func, rv))

\* A property read through _call_int.
IntAccessor(op, func) ==
    /\ obj = "live"
    /\ \E rv \in {"int"} : Only(call_int(Call(op), func, rv))

\* A property read through _call_bool.
BoolAccessor(op, func) ==
    /\ obj = "live"
    /\ \E rv \in {"0", "1"} : Only(call_bool(Call(op), func, rv))

db == BytesAccessor("db", "PQdb")
user == BytesAccessor("user", "PQuser")
host == BytesAccessor("host", "PQhost")
port == BytesAccessor("port", "PQport")
options == BytesAccessor("options", "PQoptions")
protocol_version == IntAccessor("protocol_version", "PQprotocolVersion")
server_version == IntAccessor("server_version", "PQserverVersion")
socket == IntAccessor("socket", "PQsocket")
backend_pid == IntAccessor("backend_pid", "PQbackendPID")
needs_password == BoolAccessor("needs_password", "PQconnectionNeedsPassword")
used_password == BoolAccessor("used_password", "PQconnectionUsedPassword")
ssl_in_use == BoolAccessor("ssl_in_use", "PQsslInUse")

\* PGconn.status: no check of the pointer.
status ==
    /\ obj = "live"
    /\ \E rv \in PQstatus_rvs :
        Only(Return(Native(Call("status"), "PQstatus", rv), rv))

\* PGconn.transaction_status: no check of the pointer.
transaction_status ==
    /\ obj = "live"
    /\ \E rv \in PQtransactionStatus_rvs :
        Only(Return(Native(Call("transaction_status"), "PQtransactionStatus", rv),
                    rv))

\* PGconn.error_message: no check of the pointer.
error_message ==
    /\ obj = "live"
    /\ \E rv \in PQerrorMessage_rvs :
        Only(Return(Native(Call("error_message"), "PQerrorMessage", rv), rv))

\* PGconn.parameter_status(name)
parameter_status ==
    /\ obj = "live"
    /\ IF ~ensure_pgconn
       THEN Only(Raise(Call("parameter_status"), "PQerror", ClosedMsg))
       ELSE \E rv \in {"NULL", "bytes"} :
            Only(Return(Native(Call("parameter_status"), "PQparameterStatus", rv),
                        IF rv = "NULL" THEN "-" ELSE rv))

\* ------------------------------------------------ parameter marshalling
\* Python values.  An optional argument is [given, seq]; an element of
\* param_values is None or a byte string, [null, bytes].
NoneArg == [given |-> FALSE, seq |-> <<>>]
Some(s) == [given |-> TRUE, seq |-> s]
PyNone == [null |-> TRUE, bytes |-> <<>>]
B(s) == [null |-> FALSE, bytes |-> s]

\* The sequences of length 0..MaxParams over S, and no argument at all.
OptSeqs(S) ==
    {NoneArg} \cup {Some(s) : s \in UNION {[1..n -> S] : n \in 0..MaxParams}}

\* The arguments the query entry points are tried with.
TextArgs == {[kind |-> k, text |-> "t"] : k \in Kinds}
ParamValues == OptSeqs({PyNone, B(<<7>>)})
ParamTypes == OptSeqs({23})
ParamFormats == OptSeqs({1})
ResultFormats == {0}

\* A native array built with ffi.new, and ffi.NULL passed in its place.
Arr(a) == [null |-> FALSE, a |-> a]
NullArr == [null |-> TRUE, a |-> <<>>]

\* len(param_values) if param_values is not None else 0
NParams(param_values) ==
    IF param_values.given THEN Len(param_values.seq) ELSE 0

\* Python's truth value of param_values: given and not empty.
Truthy(param_values) == param_values.given /\ Len(param_values.seq) > 0

\* The char*[nparams] array: NULL for None, else a pointer to the value's bytes.
APointers(param_values) ==
    Arr([i \in 1..Len(param_values.seq) |-> param_values.seq[i]])

\* The length array counting a terminator after each value.
ALengths_terminated(param_values) ==
    Arr([i \in 1..Len(param_values.seq) |->
            IF param_values.seq[i].null THEN 0
            ELSE Len(param_values.seq[i].bytes) + 1])

\* The int[nparams] array of the values' lengths, 0 for None.
ALengths(param_values) ==
    Arr([i \in 1..Len(param_values.seq) |->
            IF param_values.seq[i].null THEN 0
            ELSE Len(param_values.seq[i].bytes)])

\* What a marshalling routine ends with: an exception, or the arguments tuple.
ArgsError(exc, msg) == [exc |-> exc, msg |-> msg, args |-> <<>>]
ArgsOk(args) == [exc |-> "none", msg |-> "-", args |-> args]

\* PGconn._query_params_args
query_params_args(command, param_values, param_types, param_formats, result_format) ==
    IF command.kind # "bytes" THEN ArgsError("TypeError", "bytes expected")
    ELSE
    LET nparams == NParams(param_values)
        aparams == IF Truthy(param_values) THEN APointers(param_values)
                   ELSE NullArr
        alenghts == IF Truthy(param_values) THEN ALengths(param_values)
                    ELSE NullArr
        atypes == IF ~param_types.given THEN NullArr ELSE Arr(param_types.seq)
        aformats == IF ~param_formats.given THEN NullArr
                    ELSE Arr(param_formats.seq)
    IN  IF param_types.given /\ Len(param_types.seq) # nparams
        THEN ArgsError("ValueError", "got %d param_values but %d param_types")
        ELSE IF param_formats.given /\ Len(param_formats.seq) # nparams
        THEN ArgsError("ValueError", "got %d param_values but %d param_types")
        ELSE ArgsOk(<<pgconn_ptr, command, nparams, atypes, aparams, alenghts,
                      aformats, result_format>>)

\* send_query_prepared: args[:3] + args[4:] of what _query_params_args built
\* for (name, param_values, None, param_formats, result_format).
send_query_prepared_args(name, param_values, param_formats, result_format) ==
    LET r == query_params_args(name, param_values, NoneArg, param_formats,
                               result_format)
    IN  IF r.exc # "none" THEN r
        ELSE ArgsOk(SubSeq(r.args, 1, 3) \o SubSeq(r.args, 5, 8))

\* exec_prepared: its own marshalling.  With param_values absent or empty the
\* statement `aparams, alenghts = ffi.NULL` unpacks a pointer, which raises
\* TypeError.
exec_prepared_args(name, param_values, param_formats, result_format) ==
    IF name.kind # "bytes" THEN ArgsError("TypeError", "'name' must be bytes")
    ELSE
    LET nparams == NParams(param_values)
        aparams == APointers(param_values)
        alenghts == ALengths(param_values)
        aformats == IF ~param_formats.given THEN NullArr
                    ELSE Arr(param_formats.seq)
    IN  IF ~Truthy(param_values)
        THEN ArgsError("TypeError", "cannot unpack ffi.NULL")
        ELSE IF param_formats.given /\ Len(param_formats.seq) # nparams
        THEN ArgsError("ValueError", "got %d param_values but %d param_types")
        ELSE ArgsOk(<<pgconn_ptr, name, nparams, aparams, alenghts, aformats,
                      result_format>>)

\* prepare / send_prepare: nparams and the Oid array from param_types alone.
prepare_args(name, command, param_types) ==
    ArgsOk(<<pgconn_ptr, name, command,
             IF param_types.given THEN Len(param_types.seq) ELSE 0,
             IF param_types.given THEN Arr(param_types.seq) ELSE NullArr>>)

\* Whether a supplied param_types / param_formats differs in length from
\* len(param_values) (0 when param_values is absent).
Mismatch(param_values, param_types, param_formats) ==
    \/ param_types.given /\ Len(param_types.seq) # NParams(param_values)
    \/ param_formats.given /\ Len(param_formats.seq) # NParams(param_values)

\* ------------------------------------------------- the engine's commands
\* What a result-returning engine function may answer: NULL when it cannot
\* allocate, else the next native result.
PQresult_ptrs ==
    {NULL} \cup (IF eng_nres < MaxResults THEN {eng_nres + 1} ELSE {})

\* The status a native result may carry; FATAL_ERROR is a server-reported error.
ExecStatuses == {"COMMAND_OK", "TUPLES_OK", "FATAL_ERROR"}

\* What a PQsend* function may answer: 1 only on an idle, established
\* connection; 0 (failure) always.
PQsend_rvs ==
    IF pgconn_ptr # NULL /\ eng_status = "OK" /\ ~eng_busy /\ eng_nres < MaxResults
    THEN {"0", "1"} ELSE {"0"}

\* The text misc.error_message(self) gives when it is evaluated: the engine's
\* error buffer as the native call just made left it.
live_error_message == eng_errmsg'

\* PGresult.__init__
PGresult_new(pgresult_ptr) ==
    [ptr |-> pgresult_ptr, id |-> pgresult_ptr, dead |-> FALSE]

\* The tail of every synchronous entry point:
\*   rv = impl.<func>(...); if not rv: raise MemoryError(...); return PGresult(rv)
\* st is the status the native result carries.
WrapResult(c, func, rv, st) ==
    IF rv = NULL
    THEN Raise(Native(c, func, "NULL"), "MemoryError", "couldn't allocate PGresult")
    ELSE [Return(Native(c, func, st), "PGresult") EXCEPT !.res = rv]

\* send_* reading the error buffer before the native call instead of after it.
SendOutcome_stale(c, func, rv) ==
    IF rv = "0"
    THEN [Raise(Native(c, func, rv), "PQerror", "sending failed")
            EXCEPT !.detail = eng_errmsg]
    ELSE Native(c, func, rv)

\* The tail of every send_* entry point:
\*   if not impl.<func>(...): raise PQerror(f"...: {error_message(self)}")
SendOutcome(c, func, rv) ==
    IF rv = "0"
    THEN [Raise(Native(c, func, rv), "PQerror", "sending failed")
            EXCEPT !.detail = live_error_message]
    ELSE Native(c, func, rv)

\* The PGresult objects after a call that ended as l.
ResultsAfter(l) ==
    IF l.exc = "none" /\ l.val = "PGresult"
    THEN Append(results, PGresult_new(l.res)) ELSE results

\* A synchronous command on a connection that passed _ensure_pgconn: the engine
\* first discards what is left of an asynchronous command, then answers.
SyncCall(c, func) ==
    \E rv \in PQresult_ptrs, st \in ExecStatuses, m \in Msgs :
        /\ last' = WrapResult(c, func, rv, st)
        /\ results' = ResultsAfter(last')
        /\ eng_nres' = IF rv # NULL THEN rv ELSE eng_nres
        /\ eng_errmsg' = IF rv = NULL \/ st = "FATAL_ERROR" THEN m ELSE ""
        /\ PQdrop_async
        /\ UNCHANGED <<conn_vars, poll_vars, clear_calls, finish_calls, copy, util_vars>>

\* An asynchronous command on a connection that passed _ensure_pgconn: on
\* success the engine queues the k results the command produces.
SendCall(c, func) ==
    \E rv \in PQsend_rvs, k \in 1..MaxResults, m \in Msgs :
        /\ rv = "1" => eng_nres + k <= MaxResults
        /\ eng_errmsg' = IF rv = "0" THEN m ELSE ""
        /\ last' = SendOutcome(c, func, rv)
        /\ IF rv = "1"
           THEN /\ eng_pending' = [i \in 1..k |-> eng_nres + i]
                /\ produced' = [i \in 1..k |-> eng_nres + i]
                /\ received' = <<>>
                /\ eng_busy' = TRUE
                /\ eng_nres' = eng_nres + k
           ELSE UNCHANGED <<async_vars, eng_nres>>
        /\ UNCHANGED <<conn_vars, poll_vars, results, clear_calls,
                       finish_calls, copy, util_vars>>

\* The order every entry point follows once its arguments are marshalled
\* (r is what the marshalling ended with): its exception if any, then
\* _ensure_pgconn, then the native phase.
Entry(c, r, native_phase) ==
    IF r.exc # "none" THEN Only(Raise(c, r.exc, r.msg))
    ELSE IF ~ensure_pgconn THEN Only(Raise(c, "PQerror", ClosedMsg))
    ELSE native_phase

\* isinstance(x, bytes) as a marshalling outcome.
CheckBytes(x, msg) ==
    IF x.kind # "bytes" THEN ArgsError("TypeError", msg) ELSE ArgsOk(<<>>)

\* The record of a query call: whether its textual arguments were bytes and
\* whether its parameter arrays disagree in length.
QCall(op, typed, mismatch) ==
    [Call(op) EXCEPT !.typed = typed, !.mismatch = mismatch]

\* ------------------------------------------------ PGconn: query entry points
\* PGconn.exec_
exec_ ==
    /\ obj = "live"
    /\ \E command \in TextArgs :
        Entry(QCall("exec_", command.kind = "bytes", FALSE),
              CheckBytes(command, "bytes expected"),
              SyncCall(QCall("exec_", TRUE, FALSE), "PQexec"))

\* PGconn.send_query
send_query ==
    /\ obj = "live"
    /\ \E command \in TextArgs :
        Entry(QCall("send_query", command.kind = "bytes", FALSE),
              CheckBytes(command, "bytes expected"),
              SendCall(QCall("send_query", TRUE, FALSE), "PQsendQuery"))

\* PGconn.exec_params
exec_params ==
    /\ obj = "live"
    /\ \E command \in TextArgs, pv \in ParamValues, pt \in ParamTypes,
          pf \in ParamFormats, rf \in ResultFormats :
        LET c == QCall("exec_params", command.kind = "bytes",
                       Mismatch(pv, pt, pf))
        IN  Entry(c, query_params_args(command, pv, pt, pf, rf),
                  SyncCall(c, "PQexecParams"))

\* PGconn.send_query_params
send_query_params ==
    /\ obj = "live"
    /\ \E command \in TextArgs, pv \in ParamValues, pt \in ParamTypes,
          pf \in ParamFormats, rf \in ResultFormats :
        LET c == QCall("send_query_params", command.kind = "bytes",
                       Mismatch(pv, pt, pf))
        IN  Entry(c, query_params_args(command, pv, pt, pf, rf),
                  SendCall(c, "PQsendQueryParams"))

\* PGconn.send_prepare: name and command are not checked; a value that is not
\* bytes is refused by the foreign-call layer when the native call is made.
send_prepare ==
    /\ obj = "live"
    /\ \E name \in TextArgs, command \in TextArgs, pt \in ParamTypes :
        LET typed == name.kind = "bytes" /\ command.kind = "bytes"
            c == QCall("send_prepare", typed, FALSE)
        IN  Entry(c, prepare_args(name, command, pt),
                  IF ~typed
                  THEN Only(Raise(c, "TypeError", "initializer for ctype 'char *'"))
                  ELSE SendCall(c, "PQsendPrepare"))

\* PGconn.send_query_prepared
send_query_prepared ==
    /\ obj = "live"
    /\ \E name \in TextArgs, pv \in ParamValues, pf \in ParamFormats,
          rf \in ResultFormats :
        LET c == QCall("send_query_prepared", name.kind = "bytes",
                       Mismatch(pv, NoneArg, pf))
        IN  Entry(c, send_query_prepared_args(name, pv, pf, rf),
                  SendCall(c, "PQsendQueryPrepared"))

\* PGconn.prepare
prepare ==
    /\ obj = "live"
    /\ \E name \in TextArgs, command \in TextArgs, pt \in ParamTypes :
        LET typed == name.kind = "bytes" /\ command.kind = "bytes"
            c == QCall("prepare", typed, FALSE)
        IN  Entry(c,
                  IF name.kind # "bytes"
                  THEN ArgsError("TypeError", "'name' must be bytes")
                  ELSE IF command.kind # "bytes"
                  THEN ArgsError("TypeError", "'command' must be bytes")
                  ELSE prepare_args(name, command, pt),
                  SyncCall(c, "PQprepare"))

\* PGconn.exec_prepared
exec_prepared ==
    /\ obj = "live"
    /\ \E name \in TextArgs, pv \in ParamValues, pf \in ParamFormats,
          rf \in ResultFormats :
        LET c == QCall("exec_prepared", name.kind = "bytes",
                       Mismatch(pv, NoneArg, pf))
        IN  Entry(c, exec_prepared_args(name, pv, pf, rf),
                  SyncCall(c, "PQexecPrepared"))

\* PGconn.describe_prepared
describe_prepared ==
    /\ obj = "live"
    /\ \E name \in TextArgs :
        Entry(QCall("describe_prepared", name.kind = "bytes", FALSE),
              CheckBytes(name, "'name' must be bytes"),
              SyncCall(QCall("describe_prepared", TRUE, FALSE),
                       "PQdescribePrepared"))

\* PGconn.describe_portal
describe_portal ==
    /\ obj = "live"
    /\ \E name \in TextArgs :
        Entry(QCall("describe_portal", name.kind = "bytes", FALSE),
              CheckBytes(name, "'name' must be bytes"),
              SyncCall(QCall("describe_portal", TRUE, FALSE),
                       "PQdescribePortal"))

\* ------------------------------------------------ PGconn: result retrieval
\* PQgetResult: the next pending result of the asynchronous command, NULL when
\* none is left (and for a NULL connection).
PQgetResult_rv ==
    IF pgconn_ptr = NULL \/ eng_pending = <<>> THEN NULL ELSE Head(eng_pending)

\* get_result with the test inverted: a result the engine hands over is dropped.
get_result_drop(c, rv) ==
    IF rv = NULL
    THEN [Return(Native(c, "PQgetResult", "result"), "PGresult") EXCEPT !.res = rv]
    ELSE Native(c, "PQgetResult", "NULL")

\* get_result's return: PGresult(rv) if rv else None
get_result_return(c, rv) ==
    IF rv # NULL
    THEN [Return(Native(c, "PQgetResult", "result"), "PGresult") EXCEPT !.res = rv]
    ELSE Native(c, "PQgetResult", "NULL")

\* PGconn.get_result: no check of the pointer.
get_result ==
    /\ obj = "live"
    /\ LET rv == PQgetResult_rv IN
        /\ last' = get_result_return(Call("get_result"), rv)
        /\ results' = ResultsAfter(last')
        /\ IF pgconn_ptr = NULL
           THEN UNCHANGED async_vars
           ELSE /\ eng_pending' = IF rv # NULL THEN Tail(eng_pending) ELSE <<>>
                /\ eng_busy' = (rv # NULL)
                /\ received' = IF last'.val = "PGresult"
                               THEN Append(received, last'.res) ELSE received
                /\ UNCHANGED produced
        /\ UNCHANGED <<conn_vars, poll_vars, eng_nres, clear_calls, eng_errmsg,
                       finish_calls, copy, util_vars>>

\* PGconn.consume_input: no check of the pointer; the engine answers 0 for NULL.
consume_input ==
    /\ obj = "live"
    /\ \E rv \in (IF pgconn_ptr = NULL THEN {"0"} ELSE {"0", "1"}), m \in Msgs :
        /\ eng_errmsg' = IF pgconn_ptr # NULL /\ rv = "0" THEN m ELSE eng_errmsg
        /\ last' = IF rv # "1"
                   THEN [Raise(Native(Call("consume_input"), "PQconsumeInput", rv),
                               "PQerror", "consuming input failed")
                           EXCEPT !.detail = IF pgconn_ptr = NULL THEN m
                                             ELSE live_error_message]
                   ELSE Native(Call("consume_input"), "PQconsumeInput", rv)
        /\ UNCHANGED <<conn_vars, poll_vars, async_vars, res_vars,
                       finish_calls, copy, util_vars>>

\* PGconn.is_busy: no check of the pointer.
is_busy ==
    /\ obj = "live"
    /\ \E rv \in (IF pgconn_ptr # NULL /\ eng_busy THEN {"0", "1"} ELSE {"0"}) :
        Only(Return(Native(Call("is_busy"), "PQisBusy", rv), rv))

\* PGconn.nonblocking (getter): no check of the pointer.
nonblocking ==
    /\ obj = "live"
    /\ \E rv \in {"0", "1"} :
        Only(Return(Native(Call("nonblocking"), "PQisnonblocking", rv), rv))

\* PGconn.nonblocking (setter): no check of the pointer; a negative answer raises.
set_nonblocking ==
    /\ obj = "live"
    /\ \E rv \in (IF pgconn_ptr = NULL THEN {"-1"} ELSE {"-1", "0"}), m \in Msgs :
        /\ eng_errmsg' = IF pgconn_ptr # NULL /\ rv = "-1" THEN m ELSE eng_errmsg
        /\ last' = IF rv = "-1"
                   THEN [Raise(Native(Call("set_nonblocking"), "PQsetnonblocking",
                                      rv),
                               "PQerror", "setting nonblocking failed")
                           EXCEPT !.detail = IF pgconn_ptr = NULL THEN m
                                             ELSE live_error_message]
                   ELSE Native(Call("set_nonblocking"), "PQsetnonblocking", rv)
        /\ UNCHANGED <<conn_vars, poll_vars, async_vars, res_vars,
                       finish_calls, copy, util_vars>>

\* PGconn.flush: no check of the pointer; a negative answer raises.
flush ==
    /\ obj = "live"
    /\ \E rv \in (IF pgconn_ptr = NULL THEN {"-1"} ELSE {"-1", "0", "1"}),
          m \in Msgs :
        /\ eng_errmsg' = IF pgconn_ptr # NULL /\ rv = "-1" THEN m ELSE eng_errmsg
        /\ last' = IF rv = "-1"
                   THEN [Raise(Native(Call("flush"), "PQflush", rv),
                               "PQerror", "flushing failed")
                           EXCEPT !.detail = IF pgconn_ptr = NULL THEN m
                                             ELSE live_error_message]
                   ELSE Return(Native(Call("flush"), "PQflush", rv), rv)
        /\ UNCHANGED <<conn_vars, poll_vars, async_vars, res_vars,
                       finish_calls, copy, util_vars>>

\* PGconn.make_empty_result: no check of the pointer; the engine builds a result
\* with or without a connection.
make_empty_result ==
    /\ obj = "live"
    /\ \E rv \in PQresult_ptrs, st \in ExecStatuses :
        /\ last' = WrapResult(Call("make_empty_result"), "PQmakeEmptyPGresult",
                              rv, st)
        /\ results' = ResultsAfter(last')
        /\ eng_nres' = IF rv # NULL THEN rv ELSE eng_nres
        /\ UNCHANGED <<conn_vars, poll_vars, async_vars, clear_calls, eng_errmsg,
                       finish_calls, copy, util_vars>>

\* ------------------------------------------------------------- PGresult
\* The PGresult objects still in use.
Handles == {h \in 1..Len(results) : ~results[h].dead}

\* The record of a call on PGresult object h.
RCall(op, h) ==
    [NoCall EXCEPT !.op = op, !.h = h, !.closed = (results[h].ptr = NULL)]

\* PGresult.clear on object h, called as `op`: the pointer is swapped for NULL
\* first, and PQclear gets the old pointer only when it was not NULL.
Clear(op, h, dies) ==
    LET p == results[h].ptr IN
    /\ results' = [results EXCEPT ![h].ptr = NULL,
                                  ![h].dead = dies]
    /\ IF p # NULL
       THEN /\ last' = [RCall(op, h) EXCEPT !.native = "PQclear"]
            /\ clear_calls' = [clear_calls EXCEPT ![p] = @ + 1]
       ELSE /\ last' = RCall(op, h)
            /\ UNCHANGED clear_calls
    /\ UNCHANGED <<conn_vars, poll_vars, async_vars, eng_nres, eng_errmsg,
                   finish_calls, copy, util_vars>>

\* PGresult.clear
PGresult_clear == \E h \in Handles : Clear("PGresult.clear", h, FALSE)

\* PGresult.__del__: the object's end of life.
PGresult_del == \E h \in Handles : Clear("PGresult.__del__", h, TRUE)

\* An accessor of PGresult: impl.<func>(self.pgresult_ptr, ...) with no check of
\* the pointer; rvs are the engine's possible answers.
ResultAccessor(op, func, rvs) ==
    \E h \in Handles, rv \in rvs :
        Only(Return([RCall(op, h) EXCEPT !.native = func,
                                         !.nullarg = (results[h].ptr = NULL),
                                         !.rv = rv],
                    IF rv = "NULL" THEN "-" ELSE rv))

PGresult_status ==
    ResultAccessor("PGresult.status", "PQresultStatus", ExecStatuses)
PGresult_error_message ==
    ResultAccessor("PGresult.error_message", "PQresultErrorMessage", {"bytes"})
PGresult_error_field ==
    ResultAccessor("PGresult.error_field", "PQresultErrorField", {"NULL", "bytes"})
PGresult_ntuples == ResultAccessor("PGresult.ntuples", "PQntuples", {"int"})
PGresult_nfields == ResultAccessor("PGresult.nfields", "PQnfields", {"int"})
PGresult_fname == ResultAccessor("PGresult.fname", "PQfname", {"NULL", "bytes"})
PGresult_ftable == ResultAccessor("PGresult.ftable", "PQftable", {"int"})
PGresult_ftablecol == ResultAccessor("PGresult.ftablecol", "PQftablecol", {"int"})
PGresult_fformat == ResultAccessor("PGresult.fformat", "PQfformat", {"int"})
PGresult_ftype == ResultAccessor("PGresult.ftype", "PQftype", {"int"})
PGresult_fmod == ResultAccessor("PGresult.fmod", "PQfmod", {"int"})
PGresult_fsize == ResultAccessor("PGresult.fsize", "PQfsize", {"int"})
PGresult_binary_tuples ==
    ResultAccessor("PGresult.binary_tuples", "PQbinaryTuples", {"int"})
PGresult_get_value ==
    ResultAccessor("PGresult.get_value", "pg3_get_value", {"NULL", "bytes"})
PGresult_nparams == ResultAccessor("PGresult.nparams", "PQnparams", {"int"})
PGresult_param_type ==
    ResultAccessor("PGresult.param_type", "PQparamtype", {"int"})
PGresult_command_status ==
    ResultAccessor("PGresult.command_status", "PQcmdStatus", {"NULL", "bytes"})
PGresult_command_tuples ==
    ResultAccessor("PGresult.command_tuples", "PQcmdTuples", {"NULL", "int"})
PGresult_oid_value == ResultAccessor("PGresult.oid_value", "PQoidValue", {"int"})

\* -------------------------------------------------------------- COPY-in
\* The rows of table copy_in (col1 int primary key, col2 int, data text) the
\* tests push: the key and the text.
CopyRows == {[key |-> k, data |-> d] : k \in {10, 40}, d \in {"hello", "world"}}

\* The message the tests end a COPY with when the caller's block raises.
CopyErrors == {"nuttengoggenio"}

\* The rows a sequence of pushed rows holds.
RowsOf(pushed) == {pushed[i] : i \in 1..Len(pushed)}

\* Whether inserting the pushed rows breaks the primary key: two pushed rows, or a
\* pushed row and a row of the table, share a key.
Violates(pushed, table) ==
    \/ \E i, j \in 1..Len(pushed) : i < j /\ pushed[i].key = pushed[j].key
    \/ \E i \in 1..Len(pushed) : \E r \in table : r.key = pushed[i].key

\* The end of the push loop ignoring the application's message: the rows go in.
CopyEnd_commits(c, error) ==
    IF Violates(c.pushed, c.table)
    THEN [c EXCEPT !.pc = "done", !.error = error, !.exc = "UniqueViolation",
                   !.msg = <<"duplicate key value violates unique constraint", "-">>,
                   !.tx = "INERROR"]
    ELSE [c EXCEPT !.pc = "done", !.error = error,
                   !.table = c.table \cup RowsOf(c.pushed)]

\* The end of the push loop, with the application's error message or none ("-"):
\* with a message the server aborts the COPY; with none it inserts the rows,
\* unless they break the primary key.  Either failure leaves the transaction in
\* error and the table as it was.
CopyEnd(c, error) ==
    IF error # "-"
    THEN [c EXCEPT !.pc = "done", !.error = error, !.exc = "QueryCanceled",
                   !.msg = <<"COPY from stdin failed", error>>,
                   !.tx = "INERROR"]
    ELSE IF Violates(c.pushed, c.table)
    THEN [c EXCEPT !.pc = "done", !.error = error, !.exc = "UniqueViolation",
                   !.msg = <<"duplicate key value violates unique constraint", "-">>,
                   !.tx = "INERROR"]
    ELSE [c EXCEPT !.pc = "done", !.error = error,
                   !.table = c.table \cup RowsOf(c.pushed)]

copy_unchanged ==
    UNCHANGED <<conn_vars, poll_vars, async_vars, res_vars, eng_errmsg,
                finish_calls, last, util_vars>>

\* cursor.copy("copy copy_in from stdin ..."), inside a transaction that is not
\* in error.
copy_begin ==
    /\ copy.pc \in {"idle", "done"}
    /\ copy.tx # "INERROR"
    /\ copy' = [NoCopy EXCEPT !.pc = "in", !.table = copy.table,
                              !.before = copy.table, !.tx = "INTRANS"]
    /\ copy_unchanged

\* copy.write(buffer): one more row pushed.
copy_write ==
    /\ copy.pc = "in"
    /\ Len(copy.pushed) < MaxRows
    /\ \E r \in CopyRows : copy' = [copy EXCEPT !.pushed = Append(@, r)]
    /\ copy_unchanged

\* copy.finish(): the push loop ended without an error message.
copy_finish ==
    /\ copy.pc = "in"
    /\ copy' = CopyEnd(copy, "-")
    /\ copy_unchanged

\* Leaving `with cursor.copy(...) as copy:`: without a message when the block
\* ended normally, with the exception's text when it raised.
copy_exit ==
    /\ copy.pc = "in"
    /\ \E raised \in {"-"} \cup CopyErrors : copy' = CopyEnd(copy, raised)
    /\ copy_unchanged

\* A later "select * from copy_in" on the same connection.
copy_select ==
    /\ copy.pc = "done"
    /\ copy.tx # "INERROR"
    /\ copy' = [copy EXCEPT !.queried = TRUE, !.selected = copy.table]
    /\ copy_unchanged

NextCopy == copy_begin \/ copy_write \/ copy_finish \/ copy_exit \/ copy_select

\* The COPY-in exchange of tests/test_copy.py.
SpecCopy == Init /\ [][NextCopy]_vars

\* ------------------------------------------------------------- COPY-out
\* The chunks a COPY ... TO STDOUT of the sample records produces in text
\* format: one per row.
CopyChunks == {"10 20 hello", "40 N world"}

\* The chunk sequences the engine may produce.
CopyStreams == UNION {[1..n -> CopyChunks] : n \in 0..MaxChunks}

\* What the engine's get-data operation may answer: a chunk while some are
\* left, the end-of-copy sentinel when none is, or would-block at any time.
PQgetCopyData_rvs(c) ==
    IF c.pos < Len(c.stream) THEN {"chunk", "wait"} ELSE {"end", "wait"}

\* A pull loop that yields every chunk but the first.
CopyRead_skipfirst(c, answer) ==
    IF answer = "chunk"
    THEN [c EXCEPT !.sig = answer, !.pos = @ + 1,
                   !.yielded = IF c.pos = 0 THEN @
                               ELSE Append(@, c.stream[c.pos + 1])]
    ELSE IF answer = "end" THEN [c EXCEPT !.sig = answer, !.pc = "ended"]
    ELSE [c EXCEPT !.sig = answer]

\* One turn of the pull loop: a chunk is yielded as the engine returned it,
\* would-block yields nothing and the loop calls again, the sentinel ends it.
CopyRead(c, answer) ==
    IF answer = "chunk"
    THEN [c EXCEPT !.sig = answer, !.pos = @ + 1,
                   !.yielded = Append(@, c.stream[c.pos + 1])]
    ELSE IF answer = "end" THEN [c EXCEPT !.sig = answer, !.pc = "ended"]
    ELSE [c EXCEPT !.sig = answer]

copyout_unchanged ==
    UNCHANGED <<conn_vars, poll_vars, async_vars, res_vars, eng_errmsg,
                finish_calls, last, copy, opts, esc, fin, marshal>>

\* cursor.copy("copy (...) to stdout"): the engine has a stream to hand over.
copy_out_begin ==
    /\ copyout.pc \in {"idle", "done"}
    /\ \E s \in CopyStreams :
        copyout' = [NoCopyOut EXCEPT !.pc = "out", !.stream = s]
    /\ copyout_unchanged

\* One iteration of `for chunk in copy`.
copy_out_read ==
    /\ copyout.pc = "out"
    /\ \E answer \in PQgetCopyData_rvs(copyout) :
        copyout' = CopyRead(copyout, answer)
    /\ copyout_unchanged

\* get_result() once the loop is over: the command's final result.
copy_out_result ==
    /\ copyout.pc = "ended"
    /\ \E st \in {"COMMAND_OK", "FATAL_ERROR"} :
        copyout' = [copyout EXCEPT !.pc = "done", !.result = st]
    /\ copyout_unchanged

NextCopyOut == copy_out_begin \/ copy_out_read \/ copy_out_result

\* The COPY-out exchange of tests/test_copy.py.
SpecCopyOut == Init /\ [][NextCopyOut]_vars

\* ------------------------------------------------------------- Escaping
\* Byte strings are sequences of byte values.  The bytes tried in data: zero,
\* the quote, the backslash and a letter.
DataBytes == {0, 39, 92, 97}
DataStrings == UNION {[1..n -> DataBytes] : n \in 0..MaxData}

\* The engine's hex digit for a nibble, and the nibble of a hex digit (-1 for
\* any other byte).
HexDigit(n) == IF n < 10 THEN 48 + n ELSE 87 + n
HexValue(ch) ==
    IF ch \in 48..57 THEN ch - 48
    ELSE IF ch \in 97..102 THEN ch - 87
    ELSE IF ch \in 65..70 THEN ch - 55
    ELSE 0 - 1
IsOctDigit(ch) == ch \in 48..55
IsFirstOctDigit(ch) == ch \in 48..51

\* The engine's escape format for one byte: a backslash (doubled unless
\* standard_conforming_strings) and three octal digits for a byte outside
\* 0x20..0x7e, a doubled quote, a doubled (or quadrupled) backslash.
EscapeByte(v, std) ==
    IF v < 32 \/ v > 126
    THEN (IF std THEN <<92>> ELSE <<92, 92>>)
         \o <<48 + (v \div 64), 48 + ((v \div 8) % 8), 48 + (v % 8)>>
    ELSE IF v = 39 THEN <<39, 39>>
    ELSE IF v = 92 THEN (IF std THEN <<92, 92>> ELSE <<92, 92, 92, 92>>)
    ELSE <<v>>

RECURSIVE EscapeBytes(_, _)
EscapeBytes(data, std) ==
    IF data = <<>> THEN <<>>
    ELSE EscapeByte(Head(data), std) \o EscapeBytes(Tail(data), std)

RECURSIVE HexBytes(_)
HexBytes(data) ==
    IF data = <<>> THEN <<>>
    ELSE <<HexDigit(Head(data) \div 16), HexDigit(Head(data) % 16)>>
         \o HexBytes(Tail(data))

\* PQescapeBytea / PQescapeByteaConn: the escaped text followed by the
\* terminating zero; *to_length counts the terminator.
PQescapeBytea_out(data, std, hex) ==
    LET text == IF hex
                THEN (IF std THEN <<92, 120>> ELSE <<92, 92, 120>>)
                     \o HexBytes(data)
                ELSE EscapeBytes(data, std)
        buf == text \o <<0>>
    IN  [buf |-> buf, len |-> Len(buf)]

\* The C string at a buffer: the bytes before the first zero.
RECURSIVE CStr(_)
CStr(s) ==
    IF s = <<>> \/ Head(s) = 0 THEN <<>> ELSE <<Head(s)>> \o CStr(Tail(s))

\* PQunescapeBytea on text after "\x": pairs of hex digits, a pair with a
\* byte that is no hex digit being skipped.
RECURSIVE UnescapeHex(_)
UnescapeHex(s) ==
    IF Len(s) < 2 THEN <<>>
    ELSE (IF HexValue(s[1]) # 0 - 1 /\ HexValue(s[2]) # 0 - 1
          THEN <<HexValue(s[1]) * 16 + HexValue(s[2])>> ELSE <<>>)
         \o UnescapeHex(SubSeq(s, 3, Len(s)))

\* PQunescapeBytea on text in the escape format: "\\" is a backslash, a
\* backslash and three octal digits a byte, a backslash before anything else
\* is dropped, any other byte stands for itself.
RECURSIVE UnescapeEsc(_)
UnescapeEsc(s) ==
    IF s = <<>> THEN <<>>
    ELSE IF s[1] # 92 THEN <<s[1]>> \o UnescapeEsc(Tail(s))
    ELSE IF Len(s) >= 2 /\ s[2] = 92
    THEN <<92>> \o UnescapeEsc(SubSeq(s, 3, Len(s)))
    ELSE IF Len(s) >= 4 /\ IsFirstOctDigit(s[2]) /\ IsOctDigit(s[3])
            /\ IsOctDigit(s[4])
    THEN <<(s[2] - 48) * 64 + (s[3] - 48) * 8 + (s[4] - 48)>>
         \o UnescapeEsc(SubSeq(s, 5, Len(s)))
    ELSE UnescapeEsc(Tail(s))

\* PQunescapeBytea: the data and, in *retbuflen, its length.
PQunescapeBytea_out(strtext) ==
    LET s == CStr(strtext)
        buf == IF Len(s) >= 2 /\ s[1] = 92 /\ s[2] = 120
               THEN UnescapeHex(SubSeq(s, 3, Len(s)))
               ELSE UnescapeEsc(s)
    IN  [buf |-> buf, len |-> Len(buf)]

\* escape_bytea's return: ffi.unpack(out, len_out[0] - 1), the engine's output
\* without its final zero.
escape_unpack(out) == SubSeq(out.buf, 1, out.len - 1)

\* unescape_bytea's unpack written like escape_bytea's.
unescape_unpack_short(out) == SubSeq(out.buf, 1, out.len - 1)

\* unescape_bytea's return: ffi.unpack(out, len_out[0]).
unescape_unpack(out) == SubSeq(out.buf, 1, out.len)

\* The connection checked when the Escaping object is created, not at the call.
Escaping_conn_checked_at_init(e) == ~e.bound \/ e.wasopen

\* if self.conn is not None: self.conn._ensure_pgconn()
Escaping_conn_ok(e) == ~e.bound \/ ensure_pgconn

escaping_unchanged ==
    UNCHANGED <<conn_vars, poll_vars, async_vars, res_vars, eng_errmsg,
                finish_calls, copy, copyout, opts, fin, marshal>>

\* Escaping(conn) and Escaping(): conn is the PGconn object, open or finished.
Escaping_init ==
    /\ \E bound \in BOOLEAN :
        /\ bound => obj = "live"
        /\ esc' = [NoEscaping EXCEPT !.made = TRUE, !.bound = bound,
                                     !.wasopen = bound /\ pgconn_ptr # NULL]
    /\ last' = Call("Escaping")
    /\ escaping_unchanged

\* Escaping.escape_bytea(data).  The engine settings in force are the
\* connection's when bound, the process-wide ones (never hex) when not; the
\* engine answers NULL when it cannot allocate.
Escaping_escape_bytea ==
    /\ esc.made
    /\ \E data \in DataStrings :
        LET c == Call("Escaping.escape_bytea")
            func == IF esc.bound THEN "PQescapeByteaConn" ELSE "PQescapeBytea"
            e == [esc EXCEPT !.escaped = FALSE, !.unescaped = FALSE,
                             !.data = data, !.buf = <<>>, !.out = <<>>,
                             !.uin = <<>>, !.ubuf = <<>>, !.uout = <<>>,
                             !.std = FALSE, !.hex = FALSE]
        IN  IF ~Escaping_conn_ok(esc)
            THEN /\ last' = Raise(c, "PQerror", ClosedMsg)
                 /\ esc' = e
            ELSE \/ /\ last' = Raise(NativeCls(c, func, "NULL"), "MemoryError",
                                     "couldn't allocate for escape_bytea")
                    /\ esc' = e
                 \/ \E std \in BOOLEAN,
                       hex \in (IF esc.bound THEN BOOLEAN ELSE {FALSE}) :
                    LET out == PQescapeBytea_out(data, std, hex) IN
                    /\ last' = Return(NativeCls(c, func, "out"), "bytes")
                    /\ esc' = [e EXCEPT !.escaped = TRUE, !.std = std,
                                        !.hex = hex, !.buf = out.buf,
                                        !.out = escape_unpack(out)]
    /\ escaping_unchanged

\* Byte strings unescape_bytea is tried with besides the last escaped one: \x61.
UnescapeInputs == {<<92, 120, 54, 49>>}

\* Escaping.unescape_bytea(data)
Escaping_unescape_bytea ==
    /\ esc.made
    /\ \E data \in UnescapeInputs \cup (IF esc.escaped THEN {esc.out} ELSE {}) :
        LET c == Call("Escaping.unescape_bytea")
            out == PQunescapeBytea_out(data)
            e == [esc EXCEPT !.unescaped = FALSE, !.uin = data,
                             !.ubuf = <<>>, !.uout = <<>>]
        IN  IF ~Escaping_conn_ok(esc)
            THEN /\ last' = Raise(c, "PQerror", ClosedMsg)
                 /\ esc' = e
            ELSE \/ /\ last' = Raise(NativeCls(c, "PQunescapeBytea", "NULL"),
                                     "MemoryError",
                                     "couldn't allocate for unescape_bytea")
                    /\ esc' = e
                 \/ /\ last' = Return(NativeCls(c, "PQunescapeBytea", "out"),
                                      "bytes")
                    /\ esc' = [e EXCEPT !.unescaped = TRUE, !.ubuf = out.buf,
                                        !.uout = unescape_unpack(out)]
    /\ escaping_unchanged

NextEscaping ==
    \/ connect \/ finish
    \/ Escaping_init \/ Escaping_escape_bytea \/ Escaping_unescape_bytea

\* An Escaping object, unbound or bound to a connection that is open or finished.
SpecEscaping == Init /\ [][NextEscaping]_vars

\* ------------------------------------------------------------- Conninfo
\* A PQconninfoOption: its keyword and its current value ("NULL" for none).
ConninfoOptions == [keyword : {"host", "port"}, val : {"NULL", "v"}]

\* The option arrays the engine may hand out, without their closing entry
\* (the one with a null keyword).
OptionArrays == UNION {[1..n -> ConninfoOptions] : n \in 0..MaxOptions}

\* The diagnostics PQconninfoParse may give for a malformed string.
ParseDiagnostics == Msgs \ {""}

\* What PQconninfoParse may answer: an array, NULL with a diagnostic, or NULL
\* without one when it cannot allocate.
PQconninfoParse_rvs == {"array", "malformed", "nomem"}

\* Conninfo._options_from_array: one ConninfoOption per entry before the
\* closing one, in the array's order; a null field becomes None.
options_from_array(array) ==
    [i \in 1..Len(array) |->
        [keyword |-> array[i].keyword,
         val |-> IF array[i].val = "NULL" THEN "None" ELSE array[i].val]]

\* The array freed only when the list was built: no try / finally.
OptionsScope_nofinally(c, func, array, raises) ==
    /\ last' = IF raises
               THEN Raise(NativeCls(c, func, "array"), "MemoryError",
                          "building the list failed")
               ELSE Return(NativeCls(c, func, "array"), "list")
    /\ opts' = [opts EXCEPT !.live = @ + 1 - (IF raises THEN 0 ELSE 1),
                            !.frees = IF raises THEN 0 ELSE 1,
                            !.array = array,
                            !.list = IF raises THEN <<>>
                                     ELSE options_from_array(array)]

\* The scope every caller puts around the engine's array:
\*   try: return cls._options_from_array(opts)
\*   finally: impl.PQconninfoFree(opts)
\* `raises` is whether building the list raised.
OptionsScope(c, func, array, raises) ==
    /\ last' = IF raises
               THEN Raise(NativeCls(c, func, "array"), "MemoryError",
                          "building the list failed")
               ELSE Return(NativeCls(c, func, "array"), "list")
    /\ opts' = [opts EXCEPT !.live = @ + 1 - 1,
                            !.frees = 1,
                            !.array = array,
                            !.list = IF raises THEN <<>>
                                     ELSE options_from_array(array)]

\* A call that got no array from the engine.
NoOptions(l) ==
    /\ last' = l
    /\ opts' = [opts EXCEPT !.frees = 0, !.array = <<>>, !.list = <<>>]

conninfo_unchanged ==
    UNCHANGED <<conn_vars, poll_vars, async_vars, res_vars, eng_errmsg,
                finish_calls, copy, copyout, esc, fin, marshal>>

\* Conninfo.get_defaults (classmethod)
Conninfo_get_defaults ==
    /\ LET c == Call("Conninfo.get_defaults") IN
        \/ NoOptions(Raise(NativeCls(c, "PQconndefaults", "NULL"),
                           "MemoryError",
                           "couldn't allocate connection defaults"))
        \/ \E array \in OptionArrays, raises \in BOOLEAN :
              OptionsScope(c, "PQconndefaults", array, raises)
    /\ conninfo_unchanged

\* Conninfo.parse (classmethod)
Conninfo_parse ==
    /\ \E conninfo \in Kinds :
        LET c == [Call("Conninfo.parse") EXCEPT !.typed = (conninfo = "bytes")]
        IN
        IF conninfo # "bytes"
        THEN NoOptions(Raise(c, "TypeError", "bytes expected"))
        ELSE \E rv \in PQconninfoParse_rvs :
             IF rv = "nomem"
             THEN NoOptions(Raise(NativeCls(c, "PQconninfoParse", "NULL"),
                                  "MemoryError",
                                  "couldn't allocate on conninfo parse"))
             ELSE IF rv = "malformed"
             THEN \* the diagnostic is copied into the exception, then freed
                  \* with PQfreemem
                  \E errmsg \in ParseDiagnostics :
                  /\ last' = [Raise(NativeCls(c, "PQconninfoParse", "NULL"),
                                    "PQerror", errmsg)
                                 EXCEPT !.detail = errmsg]
                  /\ opts' = [opts EXCEPT !.errbufs = @ + 1 - 1, !.frees = 0,
                                          !.array = <<>>, !.list = <<>>]
             ELSE \E array \in OptionArrays, raises \in BOOLEAN :
                  OptionsScope(c, "PQconninfoParse", array, raises)
    /\ conninfo_unchanged

\* PGconn.info
info ==
    /\ obj = "live"
    /\ LET c == Call("info") IN
        IF ~ensure_pgconn
        THEN NoOptions(Raise(c, "PQerror", ClosedMsg))
        ELSE \/ NoOptions(Raise(Native(c, "PQconninfo", "NULL"), "MemoryError",
                                "couldn't allocate connection info"))
             \/ \E array \in OptionArrays, raises \in BOOLEAN :
                   OptionsScope([c EXCEPT !.nullarg = FALSE], "PQconninfo",
                                array, raises)
    /\ conninfo_unchanged

NextConninfo ==
    \/ connect \/ finish
    \/ Conninfo_get_defaults \/ Conninfo_parse \/ info

\* The option lists: the defaults, a parsed string, a connection's own.
SpecConninfo == Init /\ [][NextConninfo]_vars

\* ----------------------------------------------- finish(), step by step
\* PGconn.finish run by several execution contexts (threads, or a thread and
\* the finalizer), one step of
\*     self.pgconn_ptr, p = ffi.NULL, self.pgconn_ptr
\*     if p: impl.PQfinish(p)
\* at a time: the right-hand side is evaluated (the pointer is read), then
\* NULL is stored, then PQfinish is called with what was read.
finish_unchanged ==
    UNCHANGED <<obj, res_vars, copy, copyout, opts, esc, marshal>>

\* The right-hand side is evaluated: context t reads self.pgconn_ptr.
finish_read(t) ==
    /\ obj = "live"
    /\ fin[t].pc \in {"idle", "done"}
    /\ \E op \in {"finish", "__del__"} :
        fin' = [fin EXCEPT ![t] = [pc |-> "read", p |-> pgconn_ptr, op |-> op]]
    /\ UNCHANGED <<pgconn_ptr, poll_vars, async_vars, eng_errmsg, finish_calls,
                   last>>
    /\ finish_unchanged

\* The targets are assigned: self.pgconn_ptr = ffi.NULL (and p = what was read).
finish_clear(t) ==
    /\ fin[t].pc = "read"
    /\ pgconn_ptr' = NULL
    /\ fin' = [fin EXCEPT ![t].pc = "cleared"]
    /\ UNCHANGED <<poll_vars, async_vars, eng_errmsg, finish_calls, last>>
    /\ finish_unchanged

\* if p: impl.PQfinish(p)
finish_release(t) ==
    /\ fin[t].pc = "cleared"
    /\ fin' = [fin EXCEPT ![t].pc = "done"]
    /\ IF fin[t].p # NULL
       THEN /\ last' = [Call(fin[t].op) EXCEPT !.closed = FALSE,
                                               !.native = "PQfinish"]
            /\ finish_calls' = finish_calls + 1
            /\ eng_status' = "NONE"
            /\ eng_reachable' = FALSE
            /\ eng_polls' = 0
            /\ npolls' = 0
            /\ eng_errmsg' = ""
            /\ PQdrop_async
       ELSE /\ last' = [Call(fin[t].op) EXCEPT !.closed = TRUE]
            /\ UNCHANGED <<poll_vars, async_vars, eng_errmsg, finish_calls>>
    /\ UNCHANGED pgconn_ptr
    /\ finish_unchanged

NextFinish ==
    \/ connect
    \/ \E t \in Contexts : finish_read(t)
    \/ \E t \in Contexts : finish_clear(t)
    \/ \E t \in Contexts : finish_release(t)

\* One connection and the contexts that finish it, interleaved.
SpecFinish == Init /\ [][NextFinish]_vars

\* ------------------------------------------- the marshalling routines alone
\* The arguments the marshalling routines are tried with: values that are
\* None, empty or two bytes long, two type Oids, both formats.
MarshalValues == OptSeqs({PyNone, B(<<>>), B(<<7, 8>>)})
MarshalTypes == OptSeqs({23, 25})
MarshalFormats == OptSeqs({0, 1})
MarshalResultFormats == {0, 1}

marshal_unchanged ==
    UNCHANGED <<conn_vars, poll_vars, async_vars, res_vars, eng_errmsg,
                finish_calls, last, copy, copyout, opts, esc, fin>>

\* exec_params / send_query_params up to their native call: the arguments go
\* through _query_params_args.
marshal_query_params ==
    /\ marshal.fn = "-"
    /\ \E command \in TextArgs, pv \in MarshalValues, pt \in MarshalTypes,
          pf \in MarshalFormats, rf \in MarshalResultFormats :
        marshal' = [fn |-> "query_params_args",
                    input |-> [text |-> command, param_values |-> pv,
                               param_types |-> pt, param_formats |-> pf,
                               result_format |-> rf],
                    r |-> query_params_args(command, pv, pt, pf, rf),
                    general |-> query_params_args(command, pv, pt, pf, rf)]
    /\ marshal_unchanged

\* send_query_prepared up to its native call.
marshal_send_query_prepared ==
    /\ marshal.fn = "-"
    /\ \E name \in TextArgs, pv \in MarshalValues, pf \in MarshalFormats,
          rf \in MarshalResultFormats :
        marshal' = [fn |-> "send_query_prepared",
                    input |-> [text |-> name, param_values |-> pv,
                               param_types |-> NoneArg, param_formats |-> pf,
                               result_format |-> rf],
                    r |-> send_query_prepared_args(name, pv, pf, rf),
                    general |-> query_params_args(name, pv, NoneArg, pf, rf)]
    /\ marshal_unchanged

\* exec_prepared up to its native call.
marshal_exec_prepared ==
    /\ marshal.fn = "-"
    /\ \E name \in TextArgs, pv \in MarshalValues, pf \in MarshalFormats,
          rf \in MarshalResultFormats :
        marshal' = [fn |-> "exec_prepared",
                    input |-> [text |-> name, param_values |-> pv,
                               param_types |-> NoneArg, param_formats |-> pf,
                               result_format |-> rf],
                    r |-> exec_prepared_args(name, pv, pf, rf),
                    general |-> query_params_args(name, pv, NoneArg, pf, rf)]
    /\ marshal_unchanged

\* The next call starts from fresh arguments.
marshal_return ==
    /\ marshal.fn # "-"
    /\ marshal' = NoMarshal
    /\ marshal_unchanged

NextMarshal ==
    \/ connect \/ finish
    \/ marshal_query_params \/ marshal_send_query_prepared
    \/ marshal_exec_prepared \/ marshal_return

\* The marshalling routines on every argument combination, on a connection
\* that is open or finished.
SpecMarshal == Init /\ [][NextMarshal]_vars

\* ------------------------------------------------------- specifications
\* The connection's life, its accessors and polling, and the results it makes.
NextLifecycle ==
    \/ connect \/ connect_start \/ connect_poll \/ finish \/ PGconn_del
    \/ reset \/ reset_start \/ reset_poll

NextAccessors ==
    \/ db \/ user \/ host \/ port \/ options
    \/ protocol_version \/ server_version \/ socket \/ backend_pid
    \/ needs_password \/ used_password \/ ssl_in_use
    \/ status \/ transaction_status \/ error_message \/ parameter_status
    \/ consume_input \/ is_busy \/ nonblocking \/ set_nonblocking \/ flush

NextResults ==
    \/ PGresult_clear \/ PGresult_del
    \/ PGresult_status \/ PGresult_error_message \/ PGresult_error_field
    \/ PGresult_ntuples \/ PGresult_nfields \/ PGresult_fname \/ PGresult_ftable
    \/ PGresult_ftablecol \/ PGresult_fformat \/ PGresult_ftype \/ PGresult_fmod
    \/ PGresult_fsize \/ PGresult_binary_tuples \/ PGresult_get_value
    \/ PGresult_nparams \/ PGresult_param_type \/ PGresult_command_status
    \/ PGresult_command_tuples \/ PGresult_oid_value

NextQueries ==
    \/ exec_ \/ send_query \/ exec_params \/ send_query_params
    \/ prepare \/ send_prepare \/ exec_prepared \/ send_query_prepared
    \/ describe_prepared \/ describe_portal

Next ==
    \/ NextLifecycle \/ NextAccessors \/ get_result \/ make_empty_result

\* The connection handle: its creation, polling, accessors and release.
Spec == Init /\ [][Next]_vars

NextResult ==
    \/ connect \/ finish \/ PGconn_del \/ exec_ \/ make_empty_result
    \/ NextResults

\* Ownership: a connection and the results it makes, from creation to release.
SpecResult == Init /\ [][NextResult]_vars

NextQuery ==
    \/ connect \/ finish \/ NextQueries \/ get_result

\* The query entry points on one connection, open or finished.
SpecQuery == Init /\ [][NextQuery]_vars

\* --------------------------------------------------------------- properties
SendOps == {"send_query", "send_query_params", "send_prepare",
            "send_query_prepared"}
SyncOps == {"exec_", "exec_params", "prepare", "exec_prepared",
            "describe_prepared", "describe_portal"}
ParamOps == {"exec_params", "send_query_params", "exec_prepared",
             "send_query_prepared"}
ReleaseOps == {"finish", "__del__", "PGresult.clear", "PGresult.__del__"}

\* The call ended with PQerror("the connection is closed").
IsClosedError(l) == l.exc = "PQerror" /\ l.msg = ClosedMsg

\* The last call was a method of the PGconn object other than finish / __del__.
ConnMethodCalled ==
    /\ last.h = 0
    /\ last.op \notin {"init", "connect", "connect_start", "finish", "__del__"}

\* C1: over any sequence of finish / clear calls and the end-of-life __del__,
\* PQfinish is called exactly once for the connection and PQclear exactly once
\* for each native result: the count is 0 while the object holds the pointer
\* and 1 ever after; a call that finds the pointer NULL reaches no native
\* function; and none of these calls raises.
C1_ReleaseOnce ==
    /\ finish_calls = (IF obj = "none" \/ pgconn_ptr # NULL THEN 0 ELSE 1)
    /\ obj = "dead" => pgconn_ptr = NULL
    /\ \A h \in 1..Len(results) :
        /\ clear_calls[results[h].id] = (IF results[h].ptr = NULL THEN 1 ELSE 0)
        /\ results[h].dead => results[h].ptr = NULL
    /\ last.op \in ReleaseOps =>
        /\ last.exc = "none"
        /\ (last.native # "none") = ~last.closed

\* C1 witness: the connection was finished explicitly and then reached its end
\* of life (__del__ found the pointer NULL), and a result reached its end of
\* life too; each was released once.
C1_Witness ==
    /\ last.op = "__del__" /\ last.closed /\ obj = "dead" /\ finish_calls = 1
    /\ \E h \in 1..Len(results) :
        results[h].dead /\ clear_calls[results[h].id] = 1

\* C2: after finish(), every other method of the connection (called with
\* well-formed arguments) fails with the closed-connection error and the
\* engine is not invoked, in particular not with the NULL pointer.
C2_ClosedConnectionFails ==
    (ConnMethodCalled /\ last.closed /\ last.typed /\ ~last.mismatch) =>
        (IsClosedError(last) /\ last.native = "none" /\ ~last.nullarg)

\* C3: a parameterized execution call (with a byte-string command or name) whose
\* param_types or param_formats length differs from len(param_values) fails
\* with ValueError and makes no native call.
C3_MismatchIsValueError ==
    (last.op \in ParamOps /\ last.typed /\ last.mismatch) =>
        (last.exc = "ValueError" /\ last.native = "none")

\* C4: every query entry point checks the kind of its textual arguments first,
\* then that the connection is open, then calls the engine: a command or name
\* that is not bytes fails with TypeError on an open and on a closed connection,
\* a well-formed call on a closed connection fails with the closed-connection
\* error, and neither reaches the engine.
C4_ValidationOrder ==
    last.op \in SendOps \cup SyncOps =>
        /\ ~last.typed => (last.exc = "TypeError" /\ last.native = "none")
        /\ (last.typed /\ ~last.mismatch /\ last.closed) =>
              (IsClosedError(last) /\ last.native = "none")

\* C5: on an open connection a send_* call raises PQerror exactly when its
\* native call answers 0, and the error carries the engine's error buffer as
\* it is then; an exec_* / prepare / describe_* call raises MemoryError exactly
\* when its native call answers NULL and never raises PQerror; a native result,
\* whatever its status (FATAL_ERROR included), is returned as a PGresult owning it.
C5_FailureFamilies ==
    /\ (last.op \in SendOps /\ ~last.closed) =>
        /\ (last.exc = "PQerror") = (last.native # "none" /\ last.rv = "0")
        /\ last.exc = "PQerror" => last.detail = eng_errmsg
        /\ last.exc \notin {"MemoryError"}
    /\ (last.op \in SyncOps /\ ~last.closed) =>
        /\ (last.exc = "MemoryError") = (last.native # "none" /\ last.rv = "NULL")
        /\ last.exc # "PQerror"
        /\ (last.native # "none" /\ last.rv # "NULL") =>
              /\ last.exc = "none" /\ last.val = "PGresult"
              /\ results[Len(results)].ptr = last.res
              /\ last.res # NULL

\* C5 witness: a send failed and raised PQerror carrying the message the failing
\* call left in the buffer, which differs from the empty buffer before it.
C5_Witness ==
    /\ last.op = "send_query_params" /\ last.exc = "PQerror"
    /\ last.detail = "e2" /\ eng_errmsg = "e2"

\* C6: after clear(), every other method of the result fails with a
\* closed-resource error and the engine is not invoked with the NULL pointer.
C6_ClearedResultFails ==
    (last.h # 0 /\ last.closed
        /\ last.op \notin {"PGresult.clear", "PGresult.__del__"}) =>
        (last.exc # "none" /\ last.native = "none" /\ ~last.nullarg)

\* C7: after an asynchronous send, get_result() hands over the pending results
\* one at a time in the order the engine produced them (what was received,
\* followed by what is pending, is what was produced), each in a new PGresult
\* owning a native result no other PGresult owns and the engine no longer
\* holds; it returns None exactly when nothing is pending, that is once every
\* result produced has been received.
C7_ResultsInOrder ==
    /\ received \o eng_pending = produced
    /\ \A h1, h2 \in 1..Len(results) :
        h1 # h2 => results[h1].id # results[h2].id
    /\ \A i \in 1..Len(received) :
        \E h \in 1..Len(results) : results[h].id = received[i]
    /\ \A i \in 1..Len(eng_pending) :
        \A h \in 1..Len(results) : results[h].id # eng_pending[i]
    /\ (last.op = "get_result" /\ ~last.closed) =>
        /\ last.exc = "none"
        /\ IF last.val = "PGresult"
           THEN /\ Len(received) > 0
                /\ received[Len(received)] = last.res
                /\ results[Len(results)].ptr = last.res
                /\ Len(received) + Len(eng_pending) = Len(produced)
           ELSE /\ eng_pending = <<>>
                /\ received = produced

\* C7 witness: a caller looped until None and has received, in order, the two
\* results the command produced.
C7_Witness ==
    /\ last.op = "get_result" /\ ~last.closed /\ last.val = "-"
    /\ Len(produced) = 2 /\ received = produced

\* C8: connect_poll returns the engine's polling status unchanged, and a
\* handshake leaves the non-terminal statuses within MaxPolls polls: it ends
\* PollingOk exactly when the server is reachable and PollingFailed when not.
C8_PollingTerminates ==
    /\ (obj = "live" /\ pgconn_ptr # NULL /\ eng_status = "STARTED") =>
        npolls + eng_polls <= MaxPolls
    /\ (last.op = "connect_poll" /\ ~last.closed) =>
        /\ last.exc = "none"
        /\ last.val = last.rv
        /\ last.val \in {"POLLING_OK", "POLLING_FAILED", "POLLING_READING",
                         "POLLING_WRITING"}
        /\ last.val = "POLLING_OK" => (eng_status = "OK" /\ eng_reachable)
        /\ last.val = "POLLING_FAILED" => (eng_status = "BAD" /\ ~eng_reachable)
        /\ last.val \in {"POLLING_READING", "POLLING_WRITING"} =>
              eng_status = "STARTED"
        /\ npolls <= MaxPolls + 1

\* C8 witness: against an unreachable server the poll after MaxPolls
\* non-terminal ones returned PollingFailed.
C8_Witness ==
    /\ last.op = "connect_poll" /\ last.val = "POLLING_FAILED"
    /\ npolls = MaxPolls + 1

\* C9: connect / connect_start with a conninfo that is not bytes raises
\* TypeError before any native call; a NULL handle raises MemoryError; any
\* other answer, whatever the connection's status, gives a PGconn holding the
\* engine's pointer.
C9_ConnectOutcome ==
    last.op \in {"connect", "connect_start"} =>
        /\ ~last.typed =>
              (last.exc = "TypeError" /\ last.native = "none" /\ obj = "none")
        /\ last.typed =>
              /\ last.native # "none"
              /\ last.rv = "NULL" => (last.exc = "MemoryError" /\ obj = "none")
              /\ last.rv # "NULL" =>
                    /\ last.exc = "none" /\ obj = "live"
                    /\ last.res = CONN /\ pgconn_ptr = last.res

\* C9 witness: connect returned a handle whose connection is Bad.
C9_Witness ==
    /\ last.op = "connect" /\ last.rv = "BAD" /\ eng_status = "BAD"
    /\ obj = "live" /\ pgconn_ptr = CONN

\* C10: COPY-in.  Ended without an error message, with rows that break no
\* constraint: every pushed row is in the table and a later query returns it.
\* Ended with an application's error message: the table is as before the
\* COPY, the error raised carries that message and the transaction is in
\* error.  Ended without a message, with rows that break the primary key: the
\* error raised is the unique violation and the transaction is in error.
C10_CopyIn ==
    copy.pc = "done" =>
        /\ (copy.error = "-" /\ ~Violates(copy.pushed, copy.before)) =>
              /\ copy.exc = "none" /\ copy.tx # "INERROR"
              /\ RowsOf(copy.pushed) \subseteq copy.table
              /\ copy.queried => RowsOf(copy.pushed) \subseteq copy.selected
        /\ copy.error # "-" =>
              /\ copy.table = copy.before
              /\ copy.exc = "QueryCanceled" /\ copy.msg[2] = copy.error
              /\ copy.tx = "INERROR"
        /\ (copy.error = "-" /\ Violates(copy.pushed, copy.before)) =>
              /\ copy.exc = "UniqueViolation" /\ copy.tx = "INERROR"
              /\ copy.table = copy.before

\* C10 witness: rows were pushed and the block raised; the COPY ended with the
\* exception's text.
C10_Witness ==
    /\ copy.pc = "done" /\ copy.error = "nuttengoggenio"
    /\ Len(copy.pushed) = 2 /\ copy.tx = "INERROR"

\* C11: COPY-out.  The chunks the pull loop has yielded are at every moment
\* the chunks the engine has handed over, in its order and with its
\* boundaries (the first `pos` elements of the stream, one element per chunk);
\* the loop ends at the end-of-copy sentinel, when every chunk has been
\* yielded; and the final command result is delivered only after the sentinel.
C11_CopyOut ==
    /\ copyout.pos <= Len(copyout.stream)
    /\ copyout.yielded = SubSeq(copyout.stream, 1, copyout.pos)
    /\ copyout.pc \in {"ended", "done"} => copyout.yielded = copyout.stream
    /\ copyout.pc = "ended" => copyout.sig = "end"
    /\ copyout.pc = "out" => copyout.sig # "end"
    /\ copyout.result # "-" => (copyout.pc = "done" /\ copyout.sig = "end")

\* C11 witness: a stream of three chunks, two of them equal, was pulled to the
\* sentinel and the final result fetched.
C11_Witness ==
    /\ copyout.pc = "done" /\ copyout.result = "COMMAND_OK"
    /\ copyout.yielded = <<"10 20 hello", "40 N world", "40 N world">>

\* The last unescape_bytea was given what the last escape_bytea returned.
RoundTrip == esc.escaped /\ esc.unescaped /\ esc.uin = esc.out

\* escape_bytea returned the engine's output less exactly its one trailing
\* zero, and unescape_bytea the engine's output whole.
TerminatorDropped ==
    /\ esc.escaped => (esc.buf = esc.out \o <<0>>)
    /\ esc.unescaped => (esc.uout = esc.ubuf)

\* C12 as stated: for every byte string d, with the Escaping object unbound or
\* bound to an open connection, unescape_bytea(escape_bytea(d)) = d; and the
\* wrapper drops exactly the engine's trailing terminator from the escaped
\* output and nothing from the unescaped output.
C12_RoundTrip ==
    /\ RoundTrip => esc.uout = esc.data
    /\ TerminatorDropped

\* C12 as amended: the round trip holds for every byte string d when
\* escape_bytea ran bound to an open connection whose engine settings are the
\* hex format and standard-conforming strings; and in every configuration the
\* wrapper drops exactly the engine's trailing terminator from the escaped
\* output and nothing from the unescaped output.
C12_RoundTripHex ==
    /\ (RoundTrip /\ esc.bound /\ esc.hex /\ esc.std) => esc.uout = esc.data
    /\ TerminatorDropped

\* C12 witness: a zero byte and a quote went through the hex round trip.
C12_Witness ==
    /\ RoundTrip /\ esc.bound /\ esc.hex /\ esc.std
    /\ esc.data = <<0, 39>> /\ esc.uout = <<0, 39>>
    /\ esc.out = <<92, 120, 48, 48, 50, 55>>

\* C14: escape_bytea and unescape_bytea of an Escaping object bound to a
\* connection that is finished when they are called raise the
\* closed-connection error and reach no native function, whether or not the
\* connection was open when the object was created; bound to an open
\* connection escape_bytea calls PQescapeByteaConn, unbound PQescapeBytea.
C14_EscapingChecksConnection ==
    last.op \in {"Escaping.escape_bytea", "Escaping.unescape_bytea"} =>
        /\ (esc.bound /\ last.closed) =>
              (IsClosedError(last) /\ last.native = "none" /\ ~esc.unescaped
               /\ (last.op = "Escaping.escape_bytea" => ~esc.escaped))
        /\ (esc.bound /\ ~last.closed) => ~IsClosedError(last)
        /\ ~esc.bound => ~IsClosedError(last)
        /\ (last.op = "Escaping.escape_bytea" /\ last.native # "none") =>
              last.native = (IF esc.bound THEN "PQescapeByteaConn"
                             ELSE "PQescapeBytea")
        /\ (last.op = "Escaping.escape_bytea" /\ ~(esc.bound /\ last.closed)) =>
              last.native # "none"

\* C14 witness: the connection was open when the Escaping object was created
\* and finished when escape_bytea was called.
C14_Witness ==
    /\ last.op = "Escaping.escape_bytea" /\ esc.bound /\ esc.wasopen
    /\ last.closed /\ IsClosedError(last)

ConninfoOps == {"Conninfo.get_defaults", "Conninfo.parse", "info"}

\* C13: after any sequence of get_defaults / parse / info calls no option
\* array and no parse diagnostic is left allocated; an array the engine handed
\* out was freed exactly once, whether the list was built (and then holds the
\* array's options in order) or building it raised; parse of a malformed
\* string raises PQerror carrying the engine's diagnostic; NULL without a
\* diagnostic raises MemoryError.
C13_OptionArraysFreed ==
    /\ opts.live = 0
    /\ opts.errbufs = 0
    /\ last.op \in ConninfoOps =>
        /\ (opts.frees = 1) = (last.native # "none" /\ last.rv = "array")
        /\ opts.frees \in {0, 1}
        /\ last.exc = "none" =>
              (opts.frees = 1 /\ last.val = "list"
               /\ opts.list = options_from_array(opts.array))
        /\ (last.native # "none" /\ last.rv = "NULL") =>
              last.exc \in {"MemoryError", "PQerror"}
        /\ last.exc = "PQerror" =>
              \/ IsClosedError(last) /\ last.op = "info"
              \/ /\ last.op = "Conninfo.parse"
                 /\ last.detail \in ParseDiagnostics /\ last.msg = last.detail

\* C13 witness: building the list from a two-option array raised, and the
\* array was freed.
C13_Witness ==
    /\ last.op = "Conninfo.parse" /\ last.exc = "MemoryError"
    /\ last.rv = "array" /\ Len(opts.array) = 2
    /\ opts.frees = 1 /\ opts.live = 0

\* C15: when finish() calls on the same connection are interleaved, with the
\* read of the pointer, the store of NULL and the native release as separate
\* steps, PQfinish is called at most once: of two calls in progress at most
\* one holds the pointer, the other having read NULL.
C15_InterleavedFinishOnce ==
    /\ finish_calls <= 1
    /\ \A t, u \in Contexts :
        (t # u /\ fin[t].pc # "idle" /\ fin[u].pc # "idle"
            /\ fin[t].p # NULL) => fin[u].p = NULL

\* C16: for every argument combination _query_params_args accepts, nparams is
\* len(param_values) (0 when absent); for each index below nparams the pointer
\* entry is NULL exactly when the value is None and otherwise points at the
\* value's bytes, the length entry is the value's byte length (0 for None),
\* and the type and format entries, when supplied, are param_types[i] and
\* param_formats[i]; every array passed non-null has exactly nparams entries.
C16_ArraysAligned ==
    (marshal.fn = "query_params_args" /\ marshal.r.exc = "none") =>
        LET a == marshal.r.args
            pv == marshal.input.param_values
            pt == marshal.input.param_types
            pf == marshal.input.param_formats
            n == IF pv.given THEN Len(pv.seq) ELSE 0
        IN  /\ a[2] = marshal.input.text
            /\ a[3] = n
            /\ a[8] = marshal.input.result_format
            /\ n > 0 => (~a[5].null /\ ~a[6].null)
            /\ \A k \in 4..7 : ~a[k].null => Len(a[k].a) = n
            /\ \A i \in 1..n :
                /\ a[5].a[i].null = pv.seq[i].null
                /\ ~pv.seq[i].null => a[5].a[i].bytes = pv.seq[i].bytes
                /\ a[6].a[i] = (IF pv.seq[i].null THEN 0
                                ELSE Len(pv.seq[i].bytes))
                /\ pt.given => a[4].a[i] = pt.seq[i]
                /\ pf.given => a[7].a[i] = pf.seq[i]
            /\ a[4].null = ~pt.given
            /\ a[7].null = ~pf.given

\* C16 witness: a None and a two-byte value, with types and formats, were
\* marshalled.
C16_Witness ==
    /\ marshal.fn = "query_params_args" /\ marshal.r.exc = "none"
    /\ marshal.input.param_values = Some(<<PyNone, B(<<7, 8>>)>>)
    /\ marshal.input.param_types = Some(<<23, 25>>)
    /\ marshal.input.param_formats = Some(<<1, 0>>)
    /\ marshal.r.args[6] = Arr(<<0, 2>>)

\* C17: send_query_prepared and exec_prepared build, for every (name,
\* param_values, param_formats, result_format), what _query_params_args
\* builds for (name, param_values, None, param_formats, result_format) with
\* the type array removed, and fail where it fails; with param_values absent
\* or empty (and nothing else wrong) both get as far as the native call, with
\* nparams = 0 and NULL for the value and length arrays.
C17_PreparedMarshalling ==
    marshal.fn \in {"send_query_prepared", "exec_prepared"} =>
        /\ marshal.r.exc = marshal.general.exc
        /\ marshal.r.exc = "none" =>
              marshal.r.args = SubSeq(marshal.general.args, 1, 3)
                               \o SubSeq(marshal.general.args, 5, 8)
        /\ (marshal.input.text.kind = "bytes"
            /\ ~Truthy(marshal.input.param_values)
            /\ ~Mismatch(marshal.input.param_values, NoneArg,
                         marshal.input.param_formats)) =>
              /\ marshal.r.exc = "none"
              /\ marshal.r.args[3] = 0
              /\ marshal.r.args[4].null /\ marshal.r.args[5].null

====
